---- MODULE Spec2Model ----
(***************************************************************************)
(* A model of stl-repair's command line tool (src/src/stl_repair/cli.py):  *)
(* one run of the CLI from the module-level import of bpy to the process   *)
(* exit.  File names are sequences of atoms ("m", ".", "stl", ...), paths  *)
(* are a directory and a file name, the host application (Blender) is the  *)
(* environment: every call into it may find the operator missing, raise,   *)
(* or succeed.                                                             *)
(***************************************************************************)
EXTENDS Integers, Sequences, FiniteSets

VARIABLES
    pc,          \* position of the run in cli.py
    argv,        \* the command line the process was started with
    args,        \* the namespace parse_args returned
    output,      \* main's local `output`
    use_addon,   \* main's local `use_addon`
    log,         \* the host and network calls attempted so far, in order
    ran,         \* the repair operators the host actually ran to completion
    downloads,   \* number of urlretrieve calls made
    members,     \* archive members still to extract in attempt_install_print_addon
    enabled,     \* number of addon_enable calls that completed without raising
    objName,     \* obj.name of the imported object
    old_name,    \* repair_stl's local `old_name`
    final_file,  \* the path repair_stl returned
    isdir,       \* what os.path.isdir(addon_folder) answered
    install_error, \* the exception attempt_install_print_addon caught and logged
    exitCode,    \* the process exit code
    exc          \* the exception (if any) that ended the run

vars == <<pc, argv, args, output, use_addon, log, ran, downloads, members,
          enabled, objName, old_name, final_file, isdir, install_error, exitCode, exc>>

----------------------------------------------------------------------------
(* Bounds *)

\* Largest number of object_print3d_utils members in the downloaded archive.
MaxMembers == 2

----------------------------------------------------------------------------
(* File names and pathlib *)

Dot == "."
STL == <<Dot, "stl">>

NoName == <<>>

\* str.lower() on one atom: "STL" is the only atom with upper-case letters.
LowerAtom(a) == IF a = "STL" THEN "stl" ELSE a

Lower(s) == [i \in 1..Len(s) |-> LowerAtom(s[i])]

\* name.rfind('.'), 1-based; 0 when there is no dot.
RFindDot(name) ==
    LET dots == {i \in 1..Len(name) : name[i] = Dot}
    IN  IF dots = {} THEN 0 ELSE CHOOSE i \in dots : \A j \in dots : j <= i

\* PurePath.suffix: the last dot and what follows it, unless the dot is the
\* first or the last character of the name.
Suffix(name) ==
    LET i == RFindDot(name)
    IN  IF 1 < i /\ i < Len(name) THEN SubSeq(name, i, Len(name)) ELSE <<>>

\* PurePath.stem
Stem(name) ==
    LET i == RFindDot(name)
    IN  IF 1 < i /\ i < Len(name) THEN SubSeq(name, 1, i - 1) ELSE name

None == [dir |-> "None", name |-> NoName]
ValueError == [dir |-> "ValueError", name |-> NoName]

\* PurePath.with_name: ValueError on a path with an empty name or on an
\* invalid new name.
with_name(p, name) ==
    IF p.name = NoName \/ name = NoName \/ name = <<Dot>>
    THEN ValueError
    ELSE [dir |-> p.dir, name |-> name]

\* PurePath.with_stem (Python 3.9 to 3.11): with_name(stem + self.suffix)
with_stem(p, stem) == with_name(p, stem \o Suffix(p.name))

\* PurePath.with_suffix: replaces the suffix, or appends it when there is none.
with_suffix(p, suffix) ==
    IF p.name = NoName
    THEN ValueError
    ELSE [dir |-> p.dir,
          name |-> SubSeq(p.name, 1, Len(p.name) - Len(Suffix(p.name))) \o suffix]

----------------------------------------------------------------------------
(* Command lines *)

DefaultSuffix == <<"_fixed">>

InputNames == { <<"m", Dot, "stl">>, <<"m", Dot, "STL">>, <<"m", Dot, "obj">>, <<"m">> }

OutputNames == { <<"out", Dot, "stl">>, <<"out", Dot, "STL">>, <<"out", Dot, "obj">>,
                 <<"out">>, NoName }

\* Values given to -s; {} below stands for "-s not given".
SuffixValues == { <<Dot, "v">>, <<"_v">> }

\* A command line: the positional input ({} when it is left out), the value
\* of -o and of -s ({} when the option is not given), and --force-basic.
Argv ==
    { [input |-> {[dir |-> "in", name |-> n]}, o |-> {}, s |-> s, force_basic |-> f] :
        n \in InputNames, s \in {{}} \cup {{x} : x \in SuffixValues}, f \in BOOLEAN }
    \cup
    { [input |-> {[dir |-> "in", name |-> <<"m", Dot, "stl">>]},
       o |-> {[dir |-> "out", name |-> n]}, s |-> s, force_basic |-> f] :
        n \in OutputNames, s \in {{}, {<<Dot, "v">>}}, f \in BOOLEAN }
    \cup
    { [input |-> {}, o |-> {}, s |-> {}, force_basic |-> FALSE] }

NoArgs == [input |-> None, output |-> None, suffix |-> NoName, force_basic |-> FALSE]

The(S) == CHOOSE x \in S : TRUE

\* parse_args on a command line argparse accepts.
parse_args(a) ==
    [input |-> The(a.input),
     output |-> IF a.o = {} THEN None ELSE The(a.o),
     suffix |-> IF a.s = {} THEN DefaultSuffix ELSE The(a.s),
     force_basic |-> a.force_basic]

----------------------------------------------------------------------------
(* The host *)

\* What a call of bpy.ops.<op> through safe_call can meet.
HostOutcomes == {"ok", "missing", "raise"}

\* The repair operators, those that change the mesh.
Print3dOps == {"mesh.print3d_check_all", "mesh.print3d_clean_non_manifold"}
MergeOps == {"mesh.remove_doubles", "mesh.merge_by_distance"}
BasicOps == MergeOps \cup {"mesh.fill_holes", "mesh.normals_make_consistent"}

\* The names the host's importer may give the imported object.
ImportedNames == { <<"m">>, <<"Mesh">> }

\* safe_call's return value: True iff the operator exists and did not raise.
safe_call(o) == o = "ok"

\* One safe_call of operator op meeting outcome o: the call is attempted, and
\* a repair operator that completes has run.
Call(op, o) ==
    /\ log' = Append(log, op)
    /\ ran' = IF safe_call(o) /\ op \in Print3dOps \cup BasicOps THEN ran \cup {op} ELSE ran

----------------------------------------------------------------------------
(* The run *)

Init ==
    /\ pc = "import_bpy"
    /\ argv \in Argv
    /\ args = NoArgs
    /\ output = None
    /\ use_addon = FALSE
    /\ log = <<>>
    /\ ran = {}
    /\ downloads = 0
    /\ members = 0
    /\ enabled = 0
    /\ objName = NoName
    /\ old_name = NoName
    /\ final_file = None
    /\ isdir = "not tested"
    /\ install_error = "none"
    /\ exitCode = -1
    /\ exc = "none"

\* Position and results of the run; every action sets them through one of
\* Goto, Exit, addon_result and install_failed.
hostVars == <<log, ran, downloads, members, enabled, isdir>>
objVars == <<objName, old_name, final_file>>

Goto(q) ==
    /\ pc' = q
    /\ UNCHANGED <<use_addon, install_error, exitCode, exc>>

\* sys.exit(code), or the interpreter ending the process.
Exit(code, e) ==
    /\ pc' = "exited"
    /\ exitCode' = code
    /\ exc' = e
    /\ UNCHANGED <<use_addon, install_error>>

\* An exception no handler catches: the interpreter prints the traceback and
\* the process exits with status 1.
uncaught(e) == Exit(1, e)

\* Mutant of main_except: the handler exits with status 1.
main_except_exit1(e) == Exit(1, e)

\* main's handler around repair_stl: logger.exception, sys.exit(2).
main_except(e) == Exit(2, e)

\* main returns after repair_stl returned: the process exits with status 0.
main_return == Exit(0, "none")

\* The module-level guard: import bpy, or log the error and sys.exit(1).
import_bpy ==
    /\ pc = "import_bpy"
    /\ \E o \in {"ok", "raise"} :
        IF o = "ok" THEN Goto("parse_args") ELSE Exit(1, "ImportError")
    /\ UNCHANGED <<argv, args, output, hostVars, objVars>>

\* main: args = parse_args(); argparse ends the process with status 2 on a
\* command line without the positional input.
main_parse_args ==
    /\ pc = "parse_args"
    /\ IF argv.input = {}
       THEN Exit(2, "usage") /\ UNCHANGED args
       ELSE args' = parse_args(argv) /\ Goto("check_input")
    /\ UNCHANGED <<argv, output, hostVars, objVars>>

\* main: if not args.input.exists(): sys.exit(1)
main_check_input ==
    /\ pc = "check_input"
    /\ \E exists \in BOOLEAN :
        IF exists THEN Goto("compute_output") ELSE Exit(1, "missing input")
    /\ UNCHANGED <<argv, args, output, hostVars, objVars>>

\* The output path main computes from args.
OutputPath(a) ==
    LET out0 == IF a.output = None
                THEN with_stem(a.input, Stem(a.input.name) \o a.suffix)
                ELSE a.output
    IN  IF out0 = ValueError
        THEN ValueError
        ELSE IF Lower(Suffix(out0.name)) # STL THEN with_suffix(out0, STL) ELSE out0

\* Mutant of after_output: --force-basic is ignored.
after_output_ignores_flag(a) == "enable_check"

\* main: use_addon stays False and enable_print_addon is not called under
\* --force-basic.
after_output(a) == IF a.force_basic THEN "select_all" ELSE "enable_check"

\* main: the output path, then the choice of the add-on.
main_compute_output ==
    /\ pc = "compute_output"
    /\ IF OutputPath(args) = ValueError
       THEN uncaught("ValueError") /\ UNCHANGED output
       ELSE output' = OutputPath(args) /\ Goto(after_output(args))
    /\ UNCHANGED <<argv, args, hostVars, objVars>>

\* The value enable_print_addon returns becomes main's use_addon, and main
\* goes on to repair_stl.
addon_result(b) ==
    /\ use_addon' = b
    /\ pc' = "select_all"
    /\ UNCHANGED <<install_error, exitCode, exc>>

\* Mutant of install_failed: no handler, the exception ends the process.
install_failed_propagates(e) ==
    /\ install_error' = e
    /\ pc' = "exited"
    /\ exitCode' = 1
    /\ exc' = e
    /\ UNCHANGED use_addon

\* attempt_install_print_addon's handler: the exception is logged as a
\* warning and False is returned.
install_failed(e) ==
    /\ install_error' = e
    /\ use_addon' = FALSE
    /\ pc' = "select_all"
    /\ UNCHANGED <<exitCode, exc>>

\* enable_print_addon: import addon_utils and addon_utils.check; an exception
\* returns False, any(res) goes on to addon_enable, otherwise to the install.
enable_print_addon_check ==
    /\ pc = "enable_check"
    /\ log' = Append(log, "addon_utils.check")
    /\ \E o \in {"raise", "present", "absent"} :
        IF o = "raise"
        THEN addon_result(FALSE)
        ELSE Goto(IF o = "present" THEN "enable_enable" ELSE "install_locate")
    /\ UNCHANGED <<argv, args, output, ran, downloads, members, enabled, isdir, objVars>>

\* enable_print_addon: addon_enable of the add-on found present; True when it
\* completes, the install when it raises.
enable_print_addon_enable ==
    /\ pc = "enable_enable"
    /\ log' = Append(log, "preferences.addon_enable")
    /\ \E o \in {"ok", "raise"} :
        IF o = "ok"
        THEN addon_result(TRUE) /\ enabled' = enabled + 1
        ELSE Goto("install_locate") /\ UNCHANGED enabled
    /\ UNCHANGED <<argv, args, output, ran, downloads, members, isdir, objVars>>

\* Mutant of after_locate: the archive is downloaded whatever isdir says.
after_locate_always_downloads(d) == "install_download"

\* attempt_install_print_addon: download only if the folder is not there.
after_locate(d) == IF d = "dir" THEN "install_enable" ELSE "install_download"

\* attempt_install_print_addon: the user add-on directory and the isdir test
\* of object_print3d_utils in it.
attempt_install_locate ==
    /\ pc = "install_locate"
    /\ \E o \in {"raise", "dir", "absent"} :
        IF o = "raise"
        THEN install_failed("user_resource") /\ UNCHANGED isdir
        ELSE isdir' = o /\ Goto(after_locate(o))
    /\ UNCHANGED <<argv, args, output, log, ran, downloads, members, enabled, objVars>>

\* attempt_install_print_addon: urlretrieve of the archive and opening it; the
\* archive holds some number of object_print3d_utils members.
attempt_install_download ==
    /\ pc = "install_download"
    /\ log' = Append(log, "urlretrieve")
    /\ downloads' = downloads + 1
    /\ \E o \in {"ok", "raise"} :
        IF o = "ok"
        THEN (\E n \in 0..MaxMembers : members' = n) /\ Goto("install_extract")
        ELSE install_failed("download") /\ UNCHANGED members
    /\ UNCHANGED <<argv, args, output, ran, enabled, isdir, objVars>>

\* attempt_install_print_addon: the loop over the archive's members; writing
\* one may raise, and the loop ends when none is left.
attempt_install_extract ==
    /\ pc = "install_extract"
    /\ IF members = 0
       THEN Goto("install_enable") /\ UNCHANGED members
       ELSE \E o \in {"ok", "raise"} :
              IF o = "ok"
              THEN members' = members - 1 /\ Goto("install_extract")
              ELSE install_failed("extract") /\ UNCHANGED members
    /\ UNCHANGED <<argv, args, output, log, ran, downloads, enabled, isdir, objVars>>

\* attempt_install_print_addon: addon_enable after the install; True when it
\* completes, False when it raises.
attempt_install_enable ==
    /\ pc = "install_enable"
    /\ log' = Append(log, "preferences.addon_enable")
    /\ \E o \in {"ok", "raise"} :
        IF o = "ok"
        THEN addon_result(TRUE) /\ enabled' = enabled + 1
        ELSE install_failed("enable") /\ UNCHANGED enabled
    /\ UNCHANGED <<argv, args, output, ran, downloads, members, isdir, objVars>>

\* A safe_call whose result the program drops: attempt op and go on to
\* position q whatever the host does.
Attempt(op, q) ==
    /\ \E o \in HostOutcomes : Call(op, o)
    /\ Goto(q)
    /\ UNCHANGED <<argv, args, output, downloads, members, enabled, isdir, objVars>>

\* repair_stl: reset the scene.
repair_stl_select_all ==
    /\ pc = "select_all"
    /\ Attempt("object.select_all", "delete")

repair_stl_delete ==
    /\ pc = "delete"
    /\ Attempt("object.delete", "import")

\* repair_stl: import, RuntimeError when safe_call returns False.
repair_stl_import ==
    /\ pc = "import"
    /\ \E o \in HostOutcomes :
        /\ Call("wm.stl_import", o)
        /\ IF safe_call(o)
           THEN Goto("pick")
           ELSE main_except("RuntimeError: Failed to import STL")
    /\ UNCHANGED <<argv, args, output, downloads, members, enabled, isdir, objVars>>

\* repair_stl: obj = objects.active or selected_objects[0]; the index raises
\* IndexError when the host has no active object and an empty selection.
repair_stl_pick ==
    /\ pc = "pick"
    /\ \E o \in {"active", "selected", "none"} :
        IF o = "none"
        THEN main_except("IndexError") /\ UNCHANGED objName
        ELSE (\E n \in ImportedNames : objName' = n) /\ Goto("origin")
    /\ UNCHANGED <<argv, args, output, hostVars, old_name, final_file>>

repair_stl_origin ==
    /\ pc = "origin"
    /\ Attempt("object.origin_set", "rename")

\* The suffix main passes to repair_stl: "" if args.output else args.suffix.
suffix_arg(a) == IF a.output # None THEN NoName ELSE a.suffix

\* Mutant of repair_stl_rename: the repair step is left out.
repair_stl_rename_skips_repair ==
    /\ pc = "rename"
    /\ objName' = objName \o suffix_arg(args)
    /\ Goto("export")
    /\ UNCHANGED <<argv, args, output, hostVars, old_name, final_file>>

\* repair_stl: if suffix: obj.name = obj.name + suffix; then the choice of
\* the repair by use_print_addon.
repair_stl_rename ==
    /\ pc = "rename"
    /\ objName' = objName \o suffix_arg(args)
    /\ Goto(IF use_addon THEN "print3d_check" ELSE "basic_mode_edit")
    /\ UNCHANGED <<argv, args, output, hostVars, old_name, final_file>>

\* repair_stl: the add-on's operators.  safe_call raises nothing, so the
\* except branch with basic_mesh_repair is never entered.
repair_stl_print3d_check ==
    /\ pc = "print3d_check"
    /\ Attempt("mesh.print3d_check_all", "print3d_clean")

repair_stl_print3d_clean ==
    /\ pc = "print3d_clean"
    /\ Attempt("mesh.print3d_clean_non_manifold", "export")

\* basic_mesh_repair
basic_mode_edit ==
    /\ pc = "basic_mode_edit"
    /\ Attempt("object.mode_set(EDIT)", "basic_select_all")

basic_select_all ==
    /\ pc = "basic_select_all"
    /\ Attempt("mesh.select_all", "basic_remove_doubles")

\* Mutant of after_remove_doubles: merge_by_distance is always attempted.
after_remove_doubles_always_merges(ok) == "basic_merge_by_distance"

\* basic_mesh_repair: merge_by_distance only if remove_doubles returned False.
after_remove_doubles(ok) == IF ~ok THEN "basic_merge_by_distance" ELSE "basic_fill_holes"

basic_remove_doubles ==
    /\ pc = "basic_remove_doubles"
    /\ \E o \in HostOutcomes :
        /\ Call("mesh.remove_doubles", o)
        /\ Goto(after_remove_doubles(safe_call(o)))
    /\ UNCHANGED <<argv, args, output, downloads, members, enabled, isdir, objVars>>

basic_merge_by_distance ==
    /\ pc = "basic_merge_by_distance"
    /\ Attempt("mesh.merge_by_distance", "basic_fill_holes")

basic_fill_holes ==
    /\ pc = "basic_fill_holes"
    /\ Attempt("mesh.fill_holes", "basic_normals")

basic_normals ==
    /\ pc = "basic_normals"
    /\ Attempt("mesh.normals_make_consistent", "basic_mode_object")

basic_mode_object ==
    /\ pc = "basic_mode_object"
    /\ Attempt("object.mode_set(OBJECT)", "export")

\* repair_stl: the object takes the output's stem as its name and the batch
\* export is called; RuntimeError when safe_call returns False.
repair_stl_export ==
    /\ pc = "export"
    /\ old_name' = objName
    /\ objName' = Stem(output.name)
    /\ \E o \in HostOutcomes :
        /\ Call("wm.stl_export", o)
        /\ IF safe_call(o)
           THEN Goto("exported")
           ELSE main_except("RuntimeError: Failed to export STL")
    /\ UNCHANGED <<argv, args, output, downloads, members, enabled, isdir, final_file>>

\* The path repair_stl returns: export_dir / f"{obj.name}.stl"
FinalFile(export_dir, name) == [dir |-> export_dir, name |-> name \o STL]

\* repair_stl: final_file, the object's name restored, return; main logs the
\* file and returns.
repair_stl_return ==
    /\ pc = "exported"
    /\ final_file' = FinalFile(output.dir, objName)
    /\ objName' = old_name
    /\ main_return
    /\ UNCHANGED <<argv, args, output, hostVars, old_name>>

Next ==
    \/ import_bpy
    \/ main_parse_args
    \/ main_check_input
    \/ main_compute_output
    \/ enable_print_addon_check
    \/ enable_print_addon_enable
    \/ attempt_install_locate
    \/ attempt_install_download
    \/ attempt_install_extract
    \/ attempt_install_enable
    \/ repair_stl_select_all
    \/ repair_stl_delete
    \/ repair_stl_import
    \/ repair_stl_pick
    \/ repair_stl_origin
    \/ repair_stl_rename
    \/ repair_stl_print3d_check
    \/ repair_stl_print3d_clean
    \/ basic_mode_edit
    \/ basic_select_all
    \/ basic_remove_doubles
    \/ basic_merge_by_distance
    \/ basic_fill_holes
    \/ basic_normals
    \/ basic_mode_object
    \/ repair_stl_export
    \/ repair_stl_return

Spec == Init /\ [][Next]_vars

----------------------------------------------------------------------------
(* Reading the log *)

Attempted(op) == \E i \in DOMAIN log : log[i] = op

Count(op) == Cardinality({i \in DOMAIN log : log[i] = op})

IsPrefix(a, b) == Len(a) <= Len(b) /\ a = SubSeq(b, 1, Len(a))

AddonCalls == {"addon_utils.check", "preferences.addon_enable", "urlretrieve"}

AddonPcs == {"enable_check", "enable_enable", "install_locate", "install_download",
             "install_extract", "install_enable"}

RepairErrors == {"RuntimeError: Failed to import STL", "IndexError",
                 "RuntimeError: Failed to export STL"}

ModeEdit == "object.mode_set(EDIT)"
ModeObject == "object.mode_set(OBJECT)"

\* log is in the order of rank: no call of a later step before one of an
\* earlier step.
Ordered(rank(_)) == \A i, j \in DOMAIN log : i < j => rank(log[i]) <= rank(log[j])

----------------------------------------------------------------------------
(* Claims *)

\* C1: the process exits with 0 when repair_stl returned, with 1 when the
\* input file does not exist or bpy cannot be imported, with 2 when
\* repair_stl was entered and raised; no other exit code is produced.
C1_ExitCodes ==
    /\ pc # "exited" => exitCode = -1
    /\ pc = "exited" =>
        /\ exitCode \in {0, 1, 2}
        /\ final_file # None => exitCode = 0
        /\ exc \in {"missing input", "ImportError"} => exitCode = 1
        /\ (Attempted("object.select_all") /\ final_file = None) =>
              (exitCode = 2 /\ exc \in RepairErrors)

C1_Witness ==
    /\ pc = "exited"
    /\ exitCode = 2
    /\ exc = "RuntimeError: Failed to export STL"
    /\ Attempted("wm.stl_export")

\* C2: once the import has succeeded, whatever else the host does (operators
\* missing or raising, no active or selected object), the run reaches the
\* export, and it exits 0 unless the export fails.
C2_OnlyImportExportFatal ==
    (pc = "exited" /\ Attempted("wm.stl_import")
        /\ exc # "RuntimeError: Failed to import STL") =>
        /\ Attempted("wm.stl_export")
        /\ exitCode = 0 \/ exc = "RuntimeError: Failed to export STL"

\* C3: in every run that reaches the export, either both operators of the
\* add-on ran to completion or basic_mesh_repair was run.
C3_FallbackOnAddonFailure ==
    Attempted("wm.stl_export") => (Print3dOps \subseteq ran \/ Attempted(ModeEdit))

\* C4: a failed install of the add-on (download, extraction, enable) is
\* neither fatal nor retried: use_addon is False, the add-on step is over
\* after at most one download and one enable of the install, the repair is
\* basic_mesh_repair, and the exit code is that of the repair alone.
C4_InstallFailureNotFatal ==
    install_error # "none" =>
        /\ ~use_addon
        /\ pc \notin AddonPcs
        /\ downloads <= 1 /\ Count("urlretrieve") <= 1
        /\ Count("preferences.addon_enable") <= 2
        /\ \A op \in Print3dOps : ~Attempted(op)
        /\ Attempted("wm.stl_export") => Attempted(ModeObject)
        /\ pc = "exited" => \/ exitCode = 0 /\ final_file # None
                            \/ exitCode = 2 /\ exc \in RepairErrors

C4_Witness ==
    /\ install_error = "download"
    /\ downloads = 1
    /\ pc = "exited"
    /\ exitCode = 0

\* C5: under --force-basic nothing of the add-on is touched (no check, no
\* addon_enable, no isdir test, no download, no print3d operator) and the
\* repair before the export is basic_mesh_repair.
C5_ForceBasic ==
    args.force_basic =>
        /\ \A i \in DOMAIN log : log[i] \notin AddonCalls \cup Print3dOps
        /\ pc \notin AddonPcs \cup {"print3d_check", "print3d_clean"}
        /\ downloads = 0 /\ enabled = 0 /\ isdir = "not tested"
        /\ ~use_addon
        /\ Attempted("wm.stl_export") => (Attempted(ModeEdit) /\ Attempted(ModeObject))

C5_Witness ==
    /\ args.force_basic
    /\ pc = "exited"
    /\ exitCode = 0
    /\ Attempted("mesh.fill_holes")

\* C6: without -o the output is in the input's directory, named input stem +
\* suffix with the extension .stl (in any case), and the object's name has
\* the suffix appended; with -o the output is the -o path, its extension
\* replaced by .stl unless it is .stl in some case, and the object keeps the
\* name the importer gave it.
C6_SuffixOnlyWithoutOutput ==
    output # None =>
        /\ args.output = None =>
             /\ output.dir = args.input.dir
             /\ Lower(output.name) = Lower(Stem(args.input.name) \o args.suffix \o STL)
        /\ args.output # None =>
             /\ output.dir = args.output.dir
             /\ output.name = IF Lower(Suffix(args.output.name)) = STL
                              THEN args.output.name
                              ELSE Stem(args.output.name) \o STL
        /\ pc \in {"print3d_check", "basic_mode_edit", "export"} =>
             objName \in {n \o (IF args.output = None THEN args.suffix ELSE NoName) :
                            n \in ImportedNames}

\* C10: the path repair_stl returns is exactly the output path main passed
\* in, and the object has again the name it had before the export.
C10_ReturnedPathIsOutput ==
    final_file # None =>
        /\ final_file = output
        /\ objName = old_name
        /\ objName \in {n \o suffix_arg(args) : n \in ImportedNames}

\* The order of the steps as the specification lists them.
SpecRank(op) ==
    CASE op = "object.select_all" -> 1
      [] op = "object.delete" -> 2
      [] op = "wm.stl_import" -> 3
      [] op \in AddonCalls -> 4
      [] op = "wm.stl_export" -> 7
      [] OTHER -> 5

\* The order of the steps with the add-on step first.
CodeRank(op) ==
    CASE op \in AddonCalls -> 1
      [] op = "object.select_all" -> 2
      [] op = "object.delete" -> 3
      [] op = "wm.stl_import" -> 4
      [] op = "wm.stl_export" -> 7
      [] OTHER -> 5

\* What every run that reaches a step has done before it: the arguments are
\* parsed before any call, the add-on step is taken unless --force-basic, and
\* the export comes after scene clear, import and a repair step.
StepsPresent ==
    /\ log # <<>> => args # NoArgs
    /\ (Attempted("object.select_all") /\ ~args.force_basic) => Attempted("addon_utils.check")
    /\ Attempted("wm.stl_export") =>
        /\ Attempted("object.select_all") /\ Attempted("object.delete")
        /\ Attempted("wm.stl_import")
        /\ Attempted("mesh.print3d_clean_non_manifold") \/ Attempted(ModeObject)

\* C7 as stated: parse, scene clear, import, add-on locate/enable/download,
\* repair, export, in this order.
C7_SpecOrder == Ordered(SpecRank) /\ StepsPresent

\* C7 amended: parse, add-on locate/enable/download (unless --force-basic),
\* scene clear, import, repair, export, in this order.
C7_CodeOrder == Ordered(CodeRank) /\ StepsPresent

C7_Witness ==
    /\ pc = "exited"
    /\ exitCode = 0
    /\ Attempted("urlretrieve")
    /\ Attempted("mesh.print3d_check_all")

\* The calls basic_mesh_repair makes, given whether remove_doubles ran.
BasicSequence(removed) ==
    <<ModeEdit, "mesh.select_all", "mesh.remove_doubles">>
    \o (IF removed THEN <<>> ELSE <<"mesh.merge_by_distance">>)
    \o <<"mesh.fill_holes", "mesh.normals_make_consistent", ModeObject>>

\* The part of the log that basic_mesh_repair wrote.
BasicLog ==
    LET first == CHOOSE i \in DOMAIN log : log[i] = ModeEdit
        last == IF log[Len(log)] = "wm.stl_export" THEN Len(log) - 1 ELSE Len(log)
    IN  SubSeq(log, first, last)

\* C8: basic_mesh_repair attempts its operators in one fixed order, whatever
\* fails; merge_by_distance is attempted iff remove_doubles did not run, at
\* most one of the two runs, and the last call is object.mode_set(OBJECT).
C8_BasicRepairOrder ==
    Attempted(ModeEdit) =>
        /\ IsPrefix(BasicLog, BasicSequence("mesh.remove_doubles" \in ran))
        /\ Cardinality(ran \cap MergeOps) <= 1
        /\ pc \in {"export", "exported", "exited"} =>
             BasicLog = BasicSequence("mesh.remove_doubles" \in ran)

C8_Witness ==
    /\ pc = "export"
    /\ Attempted("mesh.merge_by_distance")
    /\ ran = {"mesh.normals_make_consistent"}
    /\ log[Len(log)] = ModeObject

\* C9: at most one download, and only with the add-on folder absent; an
\* addon_enable that completes ends the add-on step with True (so nothing is
\* downloaded after it), and True is returned only after such a call.
C9_DownloadOnlyIfAbsent ==
    /\ downloads <= 1 /\ Count("urlretrieve") = downloads
    /\ downloads > 0 => isdir = "absent"
    /\ use_addon => enabled >= 1
    /\ enabled <= 1
    /\ enabled = 1 =>
         LET calls == {i \in DOMAIN log : log[i] \in AddonCalls}
         IN  \E i \in calls : /\ \A j \in calls : j <= i
                              /\ log[i] = "preferences.addon_enable"

C9_Witness ==
    /\ use_addon
    /\ downloads = 1
    /\ pc = "exited"

====
